---------------------------- MODULE Spec2Model ----------------------------
(***************************************************************************)
(* Smart Financial Coach: the API handlers of app/main.py and the CSV      *)
(* loader of scripts/load_transactions.py over the tables of app/models.py *)
(*                                                                         *)
(* Money is counted in thousandths of a currency unit (mills): a stored    *)
(* Numeric(10, 2) value is a multiple of 10, and 0.1 * limit is a whole    *)
(* number of mills.  The handlers compute on binary floats, which are kept *)
(* as a decimal and its deviation.  A datetime is <<year, month, t>> with  *)
(* t the offset inside the month (t = 0 is the first instant of the        *)
(* month); a date is <<year, month, day>>.  Tuples of the same shape       *)
(* compare lexicographically, as dates and datetimes do.                   *)
(***************************************************************************)
EXTENDS Integers, Sequences, FiniteSets, TLC

VARIABLES
    users,          \* number of rows of table users (ids 1..users)
    accounts,       \* rows of table accounts, in id order: [user_id]
    categories,     \* rows of table categories: [raw_name, display_name]
    transactions,   \* rows of table transactions
    budgets,        \* rows of table budgets
    goals,          \* rows of table goals
    today,          \* date.today()
    resp,           \* the last response sent by a handler
    rec,            \* the frame of the running get_recommendations call
    sess,           \* the sessions of the concurrent contribute_to_goal requests
    lastWrite       \* history: the limit of the latest successful upsert per key

vars == <<users, accounts, categories, transactions, budgets, goals, today,
          resp, rec, sess, lastWrite>>

db == <<users, accounts, categories, transactions, budgets, goals>>

-----------------------------------------------------------------------------
(* Generic helpers *)

Min(a, b) == IF a <= b THEN a ELSE b

Max(a, b) == IF a >= b THEN a ELSE b

Range(s) == {s[i] : i \in DOMAIN s}

RECURSIVE SumSeq(_)
SumSeq(s) == IF s = <<>> THEN 0 ELSE Head(s) + SumSeq(Tail(s))

\* func.sum(Transaction.amount) over the selected rows
Amounts(rows) == SumSeq([k \in 1..Len(rows) |-> rows[k].amount])

\* Lexicographic order on tuples of equal length.
RECURSIVE TupleLess(_, _)
TupleLess(a, b) ==
    IF a = <<>> THEN FALSE
    ELSE IF Head(a) # Head(b) THEN Head(a) < Head(b)
    ELSE TupleLess(Tail(a), Tail(b))

TupleLeq(a, b) == a = b \/ TupleLess(a, b)

-----------------------------------------------------------------------------
(* Binary floating point: float(...) of a stored decimal and the arithmetic  *)
(* the handlers do on it.  A float is <<d, e>>: the decimal d in mills plus  *)
(* a deviation of e units of 2^-62 / 1000, far below one mill.               *)

\* 2^0 .. 2^23
PowersOf2 ==
    <<1, 2, 4, 8, 16, 32, 64, 128, 256, 512, 1024, 2048, 4096, 8192, 16384,
      32768, 65536, 131072, 262144, 524288, 1048576, 2097152, 4194304, 8388608>>

Pow2(n) == PowersOf2[n + 1]

\* the largest k <= from with 2^k <= a / 1000, for a > 0 mills
RECURSIVE ExponentFrom(_, _)
ExponentFrom(a, from) ==
    IF a * 1024 >= 1000 * Pow2(from + 10) THEN from
    ELSE ExponentFrom(a, from - 1)

\* the binary exponent of a mills + e units: that of a, one less when a is a
\* power of two and e is negative
Exponent(a, e) ==
    LET k == ExponentFrom(a, IF a < 1000 THEN -1 ELSE 10)
    IN IF a * 1024 = 1000 * Pow2(k + 10) /\ e < 0 THEN k - 1 ELSE k

\* The binary64 nearest to a mills + e units, for a > 0 or a = 0 <= e, ties to
\* the even significand.  With exponent k the floats are the multiples of
\* 2^(k-52), which is ulp = 1000 * 2^(k+10) units; a mills are a whole number
\* of ulps plus q / 125 of one, q being a * 2^(49-k) modulo 125 (2^39 is 13
\* modulo 125), and that whole number is odd exactly when q is.  A value below
\* one mill is a difference of floats that are close, which binary64 holds
\* exactly.
FloatRoundPos(a, e) ==
    IF a = 0 THEN <<0, e>>
    ELSE LET k == Exponent(a, e)
             ulp == 1000 * Pow2(k + 10)
             q == ((((a % 125) * 13) % 125) * Pow2(10 - k)) % 125
             above == Pow2(k + 13) * q + e
             down == above \div ulp
             rest == above % ulp
             n == IF 2 * rest < ulp THEN down
                  ELSE IF 2 * rest > ulp THEN down + 1
                  ELSE IF (q + down) % 2 = 0 THEN down ELSE down + 1
         IN <<a, n * ulp - Pow2(k + 13) * q>>

\* round-to-nearest of binary64, which is symmetric about 0
FloatRound(d, e) ==
    IF d < 0 \/ (d = 0 /\ e < 0)
    THEN LET r == FloatRoundPos(-d, -e) IN <<-r[1], -r[2]>>
    ELSE FloatRoundPos(d, e)

\* float(d) of the decimal d: float(0.1) = 0.1 + 25600 units,
\* float(0.3) = 0.3 - 51200 units, float(0.25) = 0.25
FloatOf(d) == FloatRound(d, 0)

\* x - y, rounded: 0.3 - 0.1 = 0.19999999999999998, 0.2 - 0.1 = 0.1
FloatSub(x, y) == FloatRound(x[1] - y[1], x[2] - y[2])

FloatGreater(x, y) == x[1] > y[1] \/ (x[1] = y[1] /\ x[2] > y[2])

FloatZero == <<0, 0>>

\* abs(x)
FloatAbs(x) == IF FloatGreater(FloatZero, x) THEN <<-x[1], -x[2]>> ELSE x

\* max(x, y): y only when it is greater
FloatMax(x, y) == IF FloatGreater(y, x) THEN y ELSE x

FloatMinFirst(x, y) == x

\* min(x, y): y only when it is smaller
FloatMin(x, y) == IF FloatGreater(x, y) THEN y ELSE x

\* (pct / 100) * limit_val, both factors floats: threshold * limit_val and
\* 0.1 * b.amount_limit.  Times 1.0 and times 0.5 are exact, and so are the
\* products of 0, 0.25 and 100.00; 0.1 * 0.05 = 0.005000000000000001,
\* 0.1 * 0.1 = 0.010000000000000002, 0.8 * 0.05 = 0.04000000000000001 and
\* 0.8 * 0.1 = 0.08000000000000002 are one ulp above the float of the decimal
\* product.  Other products are not used.
FloatTimes(pct, limit_val) ==
    CASE pct = 10 /\ limit_val = 50 -> <<5, 4480>>
      [] pct = 10 /\ limit_val = 100 -> <<10, 8960>>
      [] pct = 80 /\ limit_val = 50 -> <<40, 35840>>
      [] pct = 80 /\ limit_val = 100 -> <<80, 71680>>
      [] \/ pct \in {50, 100}
         \/ pct \in {10, 80} /\ limit_val \in {0, 250, 100000, -100000}
            -> FloatOf((pct * limit_val) \div 100)

\* round(x, 2) of a float x >= 0, in mills: the multiple of 0.01 nearest to the
\* binary value; a half cent that binary64 holds exactly goes to the even cent
FloatRound2(x) ==
    LET r == x[1] % 10
        down == x[1] - r
    IN IF r < 5 THEN down
       ELSE IF r > 5 THEN down + 10
       ELSE IF x[2] < 0 THEN down
       ELSE IF x[2] > 0 THEN down + 10
       ELSE IF (down \div 10) % 2 = 0 THEN down ELSE down + 10

\* x / n as <<d, n, e>>, the float nearest to (d mills + e) / n.  Halving is
\* exact, and the quotient of an exact x is the nearest float of d / n; other
\* quotients are not used.
FloatDiv(x, n) ==
    CASE x[2] = 0 -> <<x[1], n, 0>>
      [] n \in {1, 2} -> <<x[1], n, x[2]>>

\* x > y for two such quotients
QuotientGreater(x, y) ==
    \/ x[1] * y[2] > y[1] * x[2]
    \/ (x[1] * y[2] = y[1] * x[2] /\ x[3] * y[2] > y[3] * x[2])

-----------------------------------------------------------------------------
(* Month boundaries: get_monthly_summary and get_budget_insights *)

\* datetime(year, month, 1) / date(year, month, 1) as an instant
MonthStart(year, month) == <<year, month, 0>>

MonthEndNoRollover(year, month) ==
    IF month = 12 THEN <<year, 1, 0>> ELSE <<year, month + 1, 0>>

\* the "if month == 12" branch: December ends at January of the next year
MonthEnd(year, month) ==
    IF month = 12 THEN <<year + 1, 1, 0>> ELSE <<year, month + 1, 0>>

InWindowClosed(dt, year, month) ==
    /\ TupleLeq(MonthStart(year, month), dt)
    /\ TupleLeq(dt, MonthEnd(year, month))

\* .filter(txn_datetime >= start).filter(txn_datetime < end)
InWindow(dt, year, month) ==
    /\ TupleLeq(MonthStart(year, month), dt)
    /\ TupleLess(dt, MonthEnd(year, month))

\* func.coalesce(func.sum(Transaction.amount), 0) over the month, all categories
MonthlyTotal(year, month) ==
    Amounts(SelectSeq(transactions,
                LAMBDA t : InWindow(t.txn_datetime, year, month)))

\* the display names of the categories, in first-row order, without repeats
RECURSIVE DisplayNames(_)
DisplayNames(i) ==
    IF i > Len(categories) THEN <<>>
    ELSE LET rest == DisplayNames(i + 1)
             n == categories[i].display_name
         IN <<n>> \o SelectSeq(rest, LAMBDA x : x # n)

\* sum of the month's joined transactions whose category has display name n
CategoryTotal(n, year, month) ==
    Amounts(SelectSeq(transactions,
                LAMBDA t : /\ t.category_id # 0
                           /\ categories[t.category_id].display_name = n
                           /\ InWindow(t.txn_datetime, year, month)))

HasCategoryRows(n, year, month) ==
    \E i \in DOMAIN transactions :
        /\ transactions[i].category_id # 0
        /\ categories[transactions[i].category_id].display_name = n
        /\ InWindow(transactions[i].txn_datetime, year, month)

\* the grouped per-category rows of get_monthly_summary
ByCategory(year, month) ==
    LET names == SelectSeq(DisplayNames(1),
                     LAMBDA n : HasCategoryRows(n, year, month))
    IN [k \in 1..Len(names) |->
           [category_name |-> names[k],
            total_spent |-> CategoryTotal(names[k], year, month)]]

MonthlySummary(year, month) ==
    [year |-> year, month |-> month,
     total_spent |-> MonthlyTotal(year, month),
     by_category |-> ByCategory(year, month)]

-----------------------------------------------------------------------------
(* get_demo_user *)

\* the id of db.query(User).first() once get_demo_user has returned
DemoUserId == 1

\* a default user is created when the table is empty
UsersAfterGetDemoUser == IF users = 0 THEN 1 ELSE users

-----------------------------------------------------------------------------
(* get_budget_insights *)

\* threshold: float = 0.8, as a percentage
DefaultThresholdPct == 80

\* the budgets of the demo user for date(year, month, 1), in row order
BudgetRows(year, month) ==
    IF users = 0 THEN <<>>
    ELSE SelectSeq(budgets,
             LAMBDA b : b.user_id = DemoUserId /\ b.month = <<year, month, 1>>)

\* spend of one category on the demo user's accounts inside the month
CategorySpent(category_id, year, month) ==
    Amounts(SelectSeq(transactions,
                LAMBDA t : /\ accounts[t.account_id].user_id = DemoUserId
                           /\ t.category_id = category_id
                           /\ InWindow(t.txn_datetime, year, month)))

BudgetStatusStrict(spent, limit_val, thresholdPct) ==
    IF spent > limit_val THEN "OVER_LIMIT"
    ELSE IF spent * 100 > thresholdPct * limit_val THEN "NEAR_LIMIT"
    ELSE "OK"

\* spent = float(total_spent or 0); limit_val = float(budget.amount_limit);
\* if spent >= limit_val ... elif spent >= threshold * limit_val ... else
BudgetStatus(spent, limit_val, thresholdPct) ==
    IF ~FloatGreater(FloatOf(limit_val), FloatOf(spent)) THEN "OVER_LIMIT"
    ELSE IF ~FloatGreater(FloatTimes(thresholdPct, limit_val), FloatOf(spent))
    THEN "NEAR_LIMIT"
    ELSE "OK"

BudgetInsights(year, month, thresholdPct) ==
    LET rows == BudgetRows(year, month)
    IN [k \in 1..Len(rows) |->
           LET budget == rows[k]
               spent == CategorySpent(budget.category_id, year, month)
           IN [category_name |-> categories[budget.category_id].display_name,
               year |-> year, month |-> month,
               amount_limit |-> budget.amount_limit,
               spent |-> spent,
               status |-> BudgetStatus(spent, budget.amount_limit, thresholdPct)]]

-----------------------------------------------------------------------------
(* get_goals_progress *)

IsLeap(y) == (y % 4 = 0 /\ y % 100 # 0) \/ y % 400 = 0

DaysInMonth(y, m) ==
    IF m = 2 THEN (IF IsLeap(y) THEN 29 ELSE 28)
    ELSE IF m \in {4, 6, 9, 11} THEN 30 ELSE 31

\* d + relativedelta(months = n): the day is clipped to the month's length
AddMonths(d, n) ==
    LET idx == d[1] * 12 + (d[2] - 1) + n
        y == idx \div 12
        m == (idx % 12) + 1
    IN <<y, m, Min(d[3], DaysInMonth(y, m))>>

\* rd = relativedelta(target_date, today); rd.years * 12 + rd.months
RelativeMonths(target_date, d) ==
    LET months == (target_date[1] - d[1]) * 12 + (target_date[2] - d[2])
    IN IF TupleLess(target_date, AddMonths(d, months)) THEN months - 1 ELSE months

MonthsLeftNotRaised(target_date, d) ==
    IF TupleLeq(target_date, d) THEN 1 ELSE RelativeMonths(target_date, d)

\* months_left = 1 for a target date that is not in the future; otherwise
\* rd.years * 12 + rd.months, and 1 when that is <= 0
MonthsLeft(target_date, d) ==
    IF TupleLeq(target_date, d) THEN 1
    ELSE LET months_left == RelativeMonths(target_date, d)
         IN IF months_left <= 0 THEN 1 ELSE months_left

\* percent_complete is kept as the exact fraction <<num, den>>; monthly_needed
\* is the float remaining / months_left
GoalsProgress ==
    LET mine == IF users = 0 THEN <<>>
                ELSE SelectSeq(goals, LAMBDA g : g.user_id = DemoUserId)
    IN [k \in 1..Len(mine) |->
           LET g == mine[k]
               months_left == MonthsLeft(g.target_date, today)
           IN [id |-> g.id,
               target_amount |-> g.target_amount,
               current_amount |-> g.current_amount,
               percent_complete |->
                   IF g.target_amount > 0
                   THEN <<g.current_amount * 100, g.target_amount>> ELSE <<0, 1>>,
               months_left |-> months_left,
               monthly_needed |->
                   FloatDiv(FloatMax(FloatSub(FloatOf(g.target_amount),
                                              FloatOf(g.current_amount)),
                                     FloatZero),
                            months_left),
               status |-> g.status]]

-----------------------------------------------------------------------------
(* get_recommendations *)

\* category_to = None
Null == "null"

NoHighlight == [kind |-> "none", id |-> 0, monthly_needed |-> <<0, 1, 0>>, months_left |-> 0]

\* "Set at least one category budget to unlock recommendations."
SetBudgetHighlight ==
    [kind |-> "set_budget", id |-> 0, monthly_needed |-> <<0, 1, 0>>, months_left |-> 0]

RecIdle ==
    [pc |-> "idle", year |-> 0, month |-> 0, total_spent |-> 0,
     budget_insights |-> <<>>, overs_or_near |-> <<>>, slack_entries |-> <<>>,
     spend_recs |-> <<>>, i |-> 0]

\* [b for b in budget_insights if b.status in ("OVER_LIMIT", "NEAR_LIMIT")]
OversOrNear(budget_insights) ==
    SelectSeq(budget_insights, LAMBDA b : b.status \in {"OVER_LIMIT", "NEAR_LIMIT"})

\* remaining = b.amount_limit - b.spent, on the floats of the insight
Remaining(b) == FloatSub(FloatOf(b.amount_limit), FloatOf(b.spent))

\* (remaining, b) for every b with remaining > 0 and status OK, in encounter order
SlackEntries(budget_insights) ==
    LET ok == SelectSeq(budget_insights,
                  LAMBDA b : FloatGreater(Remaining(b), FloatZero) /\ b.status = "OK")
    IN [k \in 1..Len(ok) |-> [remaining |-> Remaining(ok[k]), b |-> ok[k]]]

\* x goes after the entries of the descending list s that are not smaller
InsertSlack(s, x) ==
    LET n == Cardinality({k \in DOMAIN s :
                             ~FloatGreater(x.remaining, s[k].remaining)})
    IN SubSeq(s, 1, n) \o <<x>> \o SubSeq(s, n + 1, Len(s))

SortSlackUnsorted(s) == s

\* slack_entries.sort(key=lambda x: x[0], reverse=True): stable, descending
RECURSIVE SortSlack(_)
SortSlack(s) ==
    IF Len(s) <= 1 THEN s
    ELSE InsertSlack(SortSlack(SubSeq(s, 1, Len(s) - 1)), s[Len(s)])

NeededFifth(b) ==
    IF b.status = "OVER_LIMIT"
    THEN FloatSub(FloatOf(b.spent), FloatOf(b.amount_limit))
    ELSE FloatOf(b.amount_limit \div 5)

\* OVER_LIMIT: b.spent - b.amount_limit; NEAR_LIMIT: 0.1 * b.amount_limit
Needed(b) ==
    IF b.status = "OVER_LIMIT"
    THEN FloatSub(FloatOf(b.spent), FloatOf(b.amount_limit))
    ELSE FloatTimes(10, b.amount_limit)

HeadKept(slack_entries, reallocate) == slack_entries

\* slack_entries[0] = (slack_remaining - reallocate, slack_b)
HeadReduced(slack_entries, reallocate) ==
    [slack_entries EXCEPT ![1].remaining = FloatSub(@, reallocate)]

Recommendation(from, to, amount) ==
    [category_from |-> from, category_to |-> to, amount |-> amount]

\* max(active_goals, key=lambda g: g.monthly_needed): the first maximal element
RECURSIVE MostDemanding(_, _, _)
MostDemanding(active_goals, best, k) ==
    IF k > Len(active_goals) THEN best
    ELSE MostDemanding(active_goals,
             IF QuotientGreater(active_goals[k].monthly_needed, best.monthly_needed)
             THEN active_goals[k] ELSE best,
             k + 1)

GoalHighlight ==
    LET active_goals == SelectSeq(GoalsProgress, LAMBDA g : g.status = "ACTIVE")
    IN IF active_goals = <<>> THEN NoHighlight
       ELSE LET most_demanding == MostDemanding(active_goals, active_goals[1], 2)
            IN [kind |-> "goal", id |-> most_demanding.id,
                monthly_needed |-> most_demanding.monthly_needed,
                months_left |-> most_demanding.months_left]

RecommendationsResponse(year, month, total_spent, spend_recs, highlight, insights) ==
    [op |-> "get_recommendations", req |-> <<year, month>>, code |-> 200,
     body |-> [year |-> year, month |-> month, total_spent |-> total_spent,
               spend_recommendations |-> spend_recs,
               goal_highlight |-> highlight,
               budget_insights |-> insights]]

\* steps 1-3: the two reused handlers, the early return and the two lists
RecBegin(year, month) ==
    /\ rec.pc = "idle"
    /\ LET insights == BudgetInsights(year, month, DefaultThresholdPct)
           total == MonthlyTotal(year, month)
       IN IF insights = <<>>
          THEN /\ resp' = RecommendationsResponse(year, month, total, <<>>,
                              SetBudgetHighlight, <<>>)
               /\ rec' = rec
          ELSE /\ rec' = [pc |-> "loop", year |-> year, month |-> month,
                          total_spent |-> total,
                          budget_insights |-> insights,
                          overs_or_near |-> OversOrNear(insights),
                          slack_entries |-> SortSlack(SlackEntries(insights)),
                          spend_recs |-> <<>>, i |-> 1]
               /\ resp' = resp
    /\ users' = UsersAfterGetDemoUser
    /\ UNCHANGED <<accounts, categories, transactions, budgets, goals, today,
                   sess, lastWrite>>

\* step 4: one iteration of "for b in overs_or_near"
RecStep ==
    /\ rec.pc = "loop"
    /\ rec.i <= Len(rec.overs_or_near)
    /\ LET b == rec.overs_or_near[rec.i]
           needed == Needed(b)
       IN IF ~FloatGreater(needed, FloatZero)
          THEN rec' = [rec EXCEPT !.i = @ + 1]
          ELSE IF rec.slack_entries # <<>>
          THEN LET slack_remaining == rec.slack_entries[1].remaining
                   slack_b == rec.slack_entries[1].b
                   reallocate == FloatMin(needed, slack_remaining)
               IN IF ~FloatGreater(reallocate, FloatZero)
                  THEN rec' = [rec EXCEPT !.i = @ + 1]
                  ELSE rec' = [rec EXCEPT
                           !.i = @ + 1,
                           !.slack_entries = HeadReduced(@, reallocate),
                           !.spend_recs = Append(@,
                               Recommendation(b.category_name,
                                              slack_b.category_name,
                                              FloatRound2(reallocate)))]
          ELSE rec' = [rec EXCEPT
                   !.i = @ + 1,
                   !.spend_recs = Append(@,
                       Recommendation(b.category_name, Null,
                                      FloatRound2(needed)))]
    /\ UNCHANGED <<users, accounts, categories, transactions, budgets, goals,
                   today, resp, sess, lastWrite>>

\* step 5 and the return
RecEnd ==
    /\ rec.pc = "loop"
    /\ rec.i > Len(rec.overs_or_near)
    /\ resp' = RecommendationsResponse(rec.year, rec.month, rec.total_spent,
                   rec.spend_recs, GoalHighlight, rec.budget_insights)
    /\ rec' = RecIdle
    /\ UNCHANGED <<users, accounts, categories, transactions, budgets, goals,
                   today, sess, lastWrite>>

-----------------------------------------------------------------------------
(* Recommendations over budgets and spend drawn from bounded sets *)

\* number of categories of the catalogue
NumCats == 3

RawNames == <<"Coffe", "Restuarant", "Film/enjoyment", "Groceries", "Transport">>

\* CATEGORY_MAP of the loader; other raw names are their own display name
DisplayNameOf(raw_name) ==
    CASE raw_name = "Coffe" -> "Coffee"
      [] raw_name = "Restuarant" -> "Restaurant"
      [] raw_name = "Film/enjoyment" -> "Entertainment"
      [] OTHER -> raw_name

Catalogue(n) ==
    [i \in 1..n |-> [raw_name |-> RawNames[i],
                     display_name |-> DisplayNameOf(RawNames[i])]]

\* limits of the month's budgets, in mills (0.05 and 0.25; 0 is a zero budget)
RecLimits == {0, 50, 250}

\* the month's spend per category, in mills
RecSpent == {0, 200, 300}

\* the (year, month) the budgets are set for, and the month after it
RecPeriod == <<2025, 3>>

NextPeriod == <<2025, 4>>

RecToday == <<2025, 3, 15>>

\* one budget row per category in the domain of lim, in category order
RECURSIVE BudgetsOf(_, _, _)
BudgetsOf(lim, i, n) ==
    IF i > n THEN <<>>
    ELSE (IF i \notin DOMAIN lim THEN <<>>
          ELSE <<[user_id |-> DemoUserId, category_id |-> i,
                  month |-> <<RecPeriod[1], RecPeriod[2], 1>>,
                  amount_limit |-> lim[i]]>>)
         \o BudgetsOf(lim, i + 1, n)

\* one transaction per category with spend, at offset t inside the month
RECURSIVE TransactionsOf(_, _, _, _)
TransactionsOf(sp, i, n, t) ==
    IF i > n THEN <<>>
    ELSE (IF sp[i] = 0 THEN <<>>
          ELSE <<[account_id |-> 1, category_id |-> i,
                  txn_datetime |-> <<RecPeriod[1], RecPeriod[2], t>>,
                  amount |-> sp[i]]>>)
         \o TransactionsOf(sp, i + 1, n, t)

\* spend of the month before, which no window of RecPeriod may count
EarlierTransactions ==
    <<[account_id |-> 1, category_id |-> 1,
       txn_datetime |-> <<RecPeriod[1], RecPeriod[2] - 1, 9>>, amount |-> 1000]>>

RecGoals ==
    <<[id |-> 1, user_id |-> DemoUserId, target_amount |-> 1200000,
       current_amount |-> 600000,
       target_date |-> <<2025, 9, 15>>, status |-> "ACTIVE"],
      [id |-> 2, user_id |-> DemoUserId, target_amount |-> 500000,
       current_amount |-> 0,
       target_date |-> <<2025, 5, 1>>, status |-> "ACTIVE"]>>

NoResponse == [op |-> "none", req |-> <<>>, code |-> 0, body |-> <<>>]

InitRec ==
    /\ users = 1
    /\ accounts = <<[user_id |-> DemoUserId]>>
    /\ categories = Catalogue(NumCats)
    /\ \E withBudget \in SUBSET (1..NumCats) :
          \E lim \in [withBudget -> RecLimits], sp \in [1..NumCats -> RecSpent] :
             /\ budgets = BudgetsOf(lim, 1, NumCats)
             /\ transactions = EarlierTransactions \o TransactionsOf(sp, 1, NumCats, 5)
    /\ goals = RecGoals
    /\ today = RecToday
    /\ resp = NoResponse
    /\ rec = RecIdle
    /\ sess = <<>>
    /\ lastWrite = <<>>

RecBeginAny == \E p \in {RecPeriod, NextPeriod} : RecBegin(p[1], p[2])

NextRec == RecBeginAny \/ RecStep \/ RecEnd

SpecRec == InitRec /\ [][NextRec]_vars

-----------------------------------------------------------------------------
(* What the claims about get_recommendations speak of *)

IsRecResponse ==
    /\ resp.op = "get_recommendations"
    /\ resp.body.budget_insights # <<>>

RespInsights == resp.body.budget_insights

RespRecs == resp.body.spend_recommendations

\* the statuses that are OVER_LIMIT or NEAR_LIMIT, in encounter order
RespOvers ==
    SelectSeq(RespInsights, LAMBDA b : b.status # "OK")

\* the slack pool: OK statuses with room left
RespSlack ==
    {k \in DOMAIN RespInsights :
        /\ RespInsights[k].status = "OK"
        /\ RespInsights[k].amount_limit - RespInsights[k].spent > 0}

Room(k) == RespInsights[k].amount_limit - RespInsights[k].spent

\* the largest remaining of the slack pool at the start of the call
LargestRoom ==
    CHOOSE r \in {Room(k) : k \in RespSlack} : \A k \in RespSlack : Room(k) <= r

\* needed as the claims define it
ClaimNeeded(b) ==
    IF b.status = "OVER_LIMIT" THEN b.spent - b.amount_limit
    ELSE b.amount_limit \div 10

\* the reallocations of the claim: entry after entry against one pool of size r
RECURSIVE Reallocations(_, _, _)
Reallocations(overs, k, r) ==
    IF k > Len(overs) THEN <<>>
    ELSE LET needed == ClaimNeeded(overs[k])
             m == Min(needed, r)
         IN IF needed <= 0 \/ m <= 0 THEN Reallocations(overs, k + 1, r)
            ELSE <<[from |-> overs[k].category_name, amount |-> m]>>
                 \o Reallocations(overs, k + 1, r - m)

\* the direct reductions of the claim: every entry with needed > 0, in order
DirectReductions(overs) ==
    LET pos == SelectSeq(overs, LAMBDA b : ClaimNeeded(b) > 0)
    IN [k \in 1..Len(pos) |->
           [from |-> pos[k].category_name, amount |-> ClaimNeeded(pos[k])]]

\* a is x rounded to a whole cent
IsRoundedToCent(a, x) == a % 10 = 0 /\ a - x <= 5 /\ x - a <= 5


\* some over-budget entry with a positive need got less than its need (by more
\* than rounding) or nothing at all
SomeNeedUnmet ==
    \E k \in DOMAIN RespOvers :
        /\ ClaimNeeded(RespOvers[k]) > 0
        /\ \A j \in DOMAIN RespRecs :
              RespRecs[j].category_from = RespOvers[k].category_name
                  => RespRecs[j].amount + 5 < ClaimNeeded(RespOvers[k])

-----------------------------------------------------------------------------
\* C1 with the amounts taken exactly: with a non-empty slack pool, the
\* recommendations are those of the over-budget entries with needed > 0,
\* processed in order against the head slack entry, the i-th with amount exactly
\* min(needed_i, R_i), R_i being the head's initial remaining minus the earlier
\* reallocations.
C1_AmountIsExactMin ==
    (IsRecResponse /\ RespSlack # {}) =>
        LET exp == Reallocations(RespOvers, 1, LargestRoom)
        IN /\ Len(RespRecs) = Len(exp)
           /\ \A k \in DOMAIN exp :
                 /\ RespRecs[k].category_from = exp[k].from
                 /\ RespRecs[k].amount = exp[k].amount

\* C1 with the amounts taken to the cent, as the response reports them: with a
\* non-empty slack pool, the recommendations are those of the over-budget
\* entries with needed > 0, processed in order against the head slack entry, the
\* amount of the i-th being min(needed_i, R_i) to the cent, where R_i is the
\* head's initial remaining minus the reallocations of the earlier entries; an
\* entry whose minimum is <= 0 yields no recommendation.
C1_AmountIsRoundedMin ==
    (IsRecResponse /\ RespSlack # {}) =>
        LET exp == Reallocations(RespOvers, 1, LargestRoom)
        IN /\ Len(RespRecs) = Len(exp)
           /\ \A k \in DOMAIN exp :
                 /\ RespRecs[k].category_from = exp[k].from
                 /\ RespRecs[k].category_to # Null
                 /\ IsRoundedToCent(RespRecs[k].amount, exp[k].amount)

\* two entries were served by the head, the second limited by what the first left
C1_Witness ==
    /\ IsRecResponse
    /\ RespSlack # {}
    /\ Len(RespRecs) >= 2
    /\ RespRecs[1].category_to # Null
    /\ \E k \in DOMAIN RespOvers :
          /\ RespOvers[k].category_name = RespRecs[2].category_from
          /\ RespRecs[2].amount + 5 < ClaimNeeded(RespOvers[k])

\* C2: every recommendation with a category_to names one and the same slack
\* category, whose remaining was the largest of the slack pool at the start of
\* the call, even when that entry is used up and others still have room.
C2_OnlyLargestSlackIsTarget ==
    IsRecResponse =>
        \A j \in DOMAIN RespRecs :
            RespRecs[j].category_to # Null =>
                /\ \E k \in RespSlack :
                      /\ RespInsights[k].category_name = RespRecs[j].category_to
                      /\ Room(k) = LargestRoom
                /\ RespRecs[j].category_to = RespRecs[1].category_to

\* the head was used up, a second slack entry had room, and a need stayed unmet
C2_Witness ==
    /\ IsRecResponse
    /\ Cardinality(RespSlack) >= 2
    /\ RespRecs # <<>>
    /\ RespRecs[1].category_to # Null
    /\ SumSeq([j \in DOMAIN RespRecs |-> RespRecs[j].amount]) = LargestRoom
    /\ SomeNeedUnmet

\* C3 as stated: with statuses but an empty slack pool, every over-budget entry
\* with needed > 0 yields exactly one recommendation with category_to = null and
\* amount = needed, in encounter order, and nothing else is emitted.
C3_DirectAmountIsExactNeeded ==
    (IsRecResponse /\ RespSlack = {}) =>
        LET exp == DirectReductions(RespOvers)
        IN /\ Len(RespRecs) = Len(exp)
           /\ \A k \in DOMAIN exp :
                 /\ RespRecs[k].category_from = exp[k].from
                 /\ RespRecs[k].category_to = Null
                 /\ RespRecs[k].amount = exp[k].amount

\* C3 as amended: the same, the amount being needed rounded to two decimals.
C3_DirectAmountIsRoundedNeeded ==
    (IsRecResponse /\ RespSlack = {}) =>
        LET exp == DirectReductions(RespOvers)
        IN /\ Len(RespRecs) = Len(exp)
           /\ \A k \in DOMAIN exp :
                 /\ RespRecs[k].category_from = exp[k].from
                 /\ RespRecs[k].category_to = Null
                 /\ IsRoundedToCent(RespRecs[k].amount, exp[k].amount)

\* two direct reductions, one for an OVER_LIMIT and one for a NEAR_LIMIT entry,
\* beside an over-budget entry that needs nothing
C3_Witness ==
    /\ IsRecResponse
    /\ RespSlack = {}
    /\ Len(RespRecs) = 2
    /\ Len(RespOvers) = 3
    /\ \E k \in DOMAIN RespOvers : RespOvers[k].status = "NEAR_LIMIT"
    /\ \A j \in DOMAIN RespRecs : RespRecs[j].category_to = Null

\* the amounts of the recommendations of recs that go to category_to
AmountsTo(recs, category_to) ==
    SumSeq([j \in DOMAIN recs |->
               IF recs[j].category_to = category_to THEN recs[j].amount ELSE 0])

\* the head slack entry of the running call
SlackHead == rec.slack_entries[1]

\* the head's remaining at the start of the call
HeadRoom == SlackHead.b.amount_limit - SlackHead.b.spent

\* what the running call has reallocated to the head so far, unrounded, to the
\* mill
Reallocated == HeadRoom - SlackHead.remaining[1]

\* C18 as stated: within one call the head slack entry's remaining never becomes
\* negative, and the amounts of the recommendations that target a slack category
\* never sum to more than that category's initial remaining (limit - spent).
C18_SlackNeverOverfilled ==
    /\ (rec.pc = "loop" /\ rec.slack_entries # <<>>) =>
          /\ ~FloatGreater(FloatZero, SlackHead.remaining)
          /\ AmountsTo(rec.spend_recs, SlackHead.b.category_name) <= HeadRoom
    /\ IsRecResponse =>
          \A k \in RespSlack :
              AmountsTo(RespRecs, RespInsights[k].category_name) <= Room(k)

\* C18 as amended: the head's remaining never becomes negative; what has been
\* reallocated to it, unrounded, is its initial remaining minus its remaining,
\* so never more than its initial remaining; the amounts of the recommendations
\* are these reallocations rounded to two decimals, so their sum is within half
\* a cent per recommendation of what has been reallocated, and exceeds the
\* category's initial remaining by at most that; no other slack category is a
\* target.
C18_SlackOverfilledByRoundingOnly ==
    /\ (rec.pc = "loop" /\ rec.slack_entries # <<>>) =>
          LET sum == AmountsTo(rec.spend_recs, SlackHead.b.category_name)
              n == Len(rec.spend_recs)
          IN /\ ~FloatGreater(FloatZero, SlackHead.remaining)
             /\ Reallocated >= 0
             /\ sum - Reallocated <= 5 * n
             /\ Reallocated - sum <= 5 * n
    /\ IsRecResponse =>
          \A k \in RespSlack :
              AmountsTo(RespRecs, RespInsights[k].category_name)
                  <= Room(k) + 5 * Len(RespRecs)

\* the head was used up by two entries and the amounts the response recommends
\* to shift into it sum to more than its room
C18_Witness ==
    /\ IsRecResponse
    /\ Len(RespRecs) = 2
    /\ \E k \in RespSlack :
          /\ RespRecs[1].category_to = RespInsights[k].category_name
          /\ RespRecs[2].category_to = RespInsights[k].category_name
          /\ AmountsTo(RespRecs, RespInsights[k].category_name) > Room(k)

-----------------------------------------------------------------------------
(* get_budget_insights as a handler, over budgets and spend from bounded sets *)

GetBudgetInsights(year, month, thresholdPct) ==
    /\ rec.pc = "idle"
    /\ resp' = [op |-> "get_budget_insights",
                req |-> <<year, month, thresholdPct>>, code |-> 200,
                body |-> BudgetInsights(year, month, thresholdPct)]
    /\ users' = UsersAfterGetDemoUser
    /\ UNCHANGED <<accounts, categories, transactions, budgets, goals, today,
                   rec, sess, lastWrite>>

\* number of categories of the catalogue when the thresholds are explored
InsCats == 2

\* limits 100.00, 0, -100.00 and 0.10, in mills
InsLimits == {100000, 0, -100000, 100}

\* spend 0, 0.08, 79.99, 80.00, 100.00 and 150.00, in mills
InsSpent == {0, 80, 79990, 80000, 100000, 150000}

\* thresholds 0.5, 0.8 and 1.0, as percentages
InsThresholds == {50, DefaultThresholdPct, 100}

\* spend at the first instant of the next month, outside the window of RecPeriod
LaterTransactions ==
    <<[account_id |-> 1, category_id |-> 1,
       txn_datetime |-> <<NextPeriod[1], NextPeriod[2], 0>>, amount |-> 7000]>>

InitInsights ==
    /\ users = 1
    /\ accounts = <<[user_id |-> DemoUserId]>>
    /\ categories = Catalogue(InsCats)
    /\ \E withBudget \in SUBSET (1..InsCats) :
          \E lim \in [withBudget -> InsLimits], sp \in [1..InsCats -> InsSpent] :
             /\ budgets = BudgetsOf(lim, 1, InsCats)
             /\ transactions = EarlierTransactions
                                   \o TransactionsOf(sp, 1, InsCats, 0)
                                   \o LaterTransactions
    /\ goals = <<>>
    /\ today = RecToday
    /\ resp = NoResponse
    /\ rec = RecIdle
    /\ sess = <<>>
    /\ lastWrite = <<>>

GetBudgetInsightsAny ==
    \E p \in {RecPeriod, NextPeriod}, thresholdPct \in InsThresholds :
        GetBudgetInsights(p[1], p[2], thresholdPct)

NextInsights == GetBudgetInsightsAny

SpecInsights == InitInsights /\ [][NextInsights]_vars

\* the budget rows configured for (year, month)
ConfiguredBudgets(year, month) ==
    SelectSeq(budgets, LAMBDA b : b.month[1] = year /\ b.month[2] = month)

\* what category c spent in the calendar month (year, month)
SpentInCalendarMonth(c, year, month) ==
    LET mine == SelectSeq(transactions,
                    LAMBDA t : /\ t.category_id = c
                               /\ t.txn_datetime[1] = year
                               /\ t.txn_datetime[2] = month)
    IN SumSeq([k \in 1..Len(mine) |-> mine[k].amount])

\* C4: get_budget_insights answers with exactly one status per budget configured
\* for the requested month, and that status is OVER_LIMIT iff spent >= limit,
\* NEAR_LIMIT iff threshold * limit <= spent < limit, and OK otherwise.
C4_OneStatusPerBudgetByThreshold ==
    resp.op = "get_budget_insights" =>
        LET conf == ConfiguredBudgets(resp.req[1], resp.req[2])
            pct == resp.req[3]
        IN /\ Len(resp.body) = Len(conf)
           /\ \A k \in DOMAIN conf :
                 LET s == resp.body[k]
                 IN /\ s.category_name = categories[conf[k].category_id].display_name
                    /\ s.amount_limit = conf[k].amount_limit
                    /\ s.spent = SpentInCalendarMonth(conf[k].category_id,
                                                      resp.req[1], resp.req[2])
                    /\ s.status \in {"OVER_LIMIT", "NEAR_LIMIT", "OK"}
                    /\ s.status = "OVER_LIMIT" <=> s.spent >= s.amount_limit
                    /\ s.status = "NEAR_LIMIT" <=>
                          /\ pct * s.amount_limit <= 100 * s.spent
                          /\ s.spent < s.amount_limit

\* limit 100.00 at threshold 0.8: 80.00 is NEAR_LIMIT beside 100.00 OVER_LIMIT
C4_Witness ==
    /\ resp.op = "get_budget_insights"
    /\ resp.req[3] = 80
    /\ Len(resp.body) = 2
    /\ resp.body[1] = [category_name |-> "Coffee", year |-> 2025, month |-> 3,
                       amount_limit |-> 100000, spent |-> 80000,
                       status |-> "NEAR_LIMIT"]
    /\ resp.body[2].spent = 100000
    /\ resp.body[2].status = "OVER_LIMIT"

\* limit 100.00 at threshold 0.8: 79.99 is OK beside 150.00 OVER_LIMIT
C4_WitnessBelow ==
    /\ resp.op = "get_budget_insights"
    /\ resp.req[3] = 80
    /\ Len(resp.body) = 2
    /\ resp.body[1].amount_limit = 100000
    /\ resp.body[1].spent = 79990
    /\ resp.body[1].status = "OK"
    /\ resp.body[2].amount_limit = 100000
    /\ resp.body[2].spent = 150000
    /\ resp.body[2].status = "OVER_LIMIT"

-----------------------------------------------------------------------------
(* create_goal and contribute_to_goal *)

\* GoalOut(...): the row as the handler returns it
GoalOut(g) ==
    [id |-> g.id, target_amount |-> g.target_amount,
     current_amount |-> g.current_amount, target_date |-> g.target_date,
     status |-> g.status]

CreateGoal(target_amount, target_date) ==
    /\ LET goal == [id |-> Len(goals) + 1, user_id |-> DemoUserId,
                    target_amount |-> target_amount, current_amount |-> 0,
                    target_date |-> target_date, status |-> "ACTIVE"]
       IN /\ goals' = Append(goals, goal)
          /\ resp' = [op |-> "create_goal", req |-> <<target_amount, target_date>>,
                      code |-> 200, body |-> GoalOut(goal)]
    /\ users' = UsersAfterGetDemoUser
    /\ UNCHANGED <<accounts, categories, transactions, budgets, today, rec, sess,
                   lastWrite>>

\* db.query(Goal).filter(id == goal_id).filter(user_id == user.id).first():
\* the index of the row, 0 for None
FindGoal(goal_id) ==
    IF users # 0 /\ goal_id \in DOMAIN goals /\ goals[goal_id].user_id = DemoUserId
    THEN goal_id ELSE 0

\* goal.current_amount >= goal.target_amount: the float 0 + payload.amount
\* against the Decimal read from the Numeric column, compared by exact value
ReachedTarget(current_amount, target_amount) ==
    ~FloatGreater(<<target_amount, 0>>, FloatOf(current_amount))

StatusReopened(status, current_amount, target_amount) ==
    IF ReachedTarget(current_amount, target_amount) THEN "COMPLETED" ELSE "ACTIVE"

\* if goal.current_amount >= goal.target_amount: goal.status = "COMPLETED"
StatusAfter(status, current_amount, target_amount) ==
    IF ReachedTarget(current_amount, target_amount) THEN "COMPLETED" ELSE status

\* goal.current_amount = (goal.current_amount or 0) + payload.amount, for a
\* stored amount of 0; the commit stores the float as a Numeric(10, 2)
AmountAfter(current_amount, amount) == current_amount + amount

\* the row after lines 762-766
Contributed(goal, amount) ==
    LET current_amount == AmountAfter(goal.current_amount, amount)
    IN [goal EXCEPT !.current_amount = current_amount,
                    !.status = StatusAfter(@, current_amount, goal.target_amount)]

\* A Numeric column is read back as a Decimal (models.py: Numeric(10, 2)); a
\* stored amount of 0 is falsy and replaced by the int 0, and for any other
\* stored amount Decimal + float raises TypeError: a 500 with nothing committed.
ContributeToGoal(goal_id, amount) ==
    /\ LET i == FindGoal(goal_id)
       IN IF i = 0
          THEN /\ resp' = [op |-> "contribute_to_goal", req |-> <<goal_id, amount>>,
                           code |-> 404, body |-> <<>>]
               /\ goals' = goals
          ELSE IF goals[i].current_amount # 0
          THEN /\ resp' = [op |-> "contribute_to_goal",
                           req |-> <<goal_id, amount>>, code |-> 500,
                           body |-> <<>>]
               /\ goals' = goals
          ELSE /\ goals' = [goals EXCEPT ![i] = Contributed(@, amount)]
               /\ resp' = [op |-> "contribute_to_goal",
                           req |-> <<goal_id, amount>>, code |-> 200,
                           body |-> GoalOut(goals'[i])]
    /\ users' = UsersAfterGetDemoUser
    /\ UNCHANGED <<accounts, categories, transactions, budgets, today, rec, sess,
                   lastWrite>>

-----------------------------------------------------------------------------
(* Goals under any sequence of create_goal and contribute_to_goal calls *)

\* number of goals created
MaxGoals == 2

\* |current_amount| stays within this many mills
MaxBalance == 400

\* targets 0 and 0.30, in mills
GoalTargets == {0, 300}

\* contributions of -0.20, 0 and 0.30, in mills: GoalContribution.amount is any
\* float
GoalContributions == {-200, 0, 300}

GoalTargetDate == <<2025, 9, 15>>

InitGoal ==
    /\ users \in {0, 1}
    /\ accounts = <<>>
    /\ categories = <<>>
    /\ transactions = <<>>
    /\ budgets = <<>>
    /\ goals = <<>>
    /\ today = RecToday
    /\ resp = NoResponse
    /\ rec = RecIdle
    /\ sess = <<>>
    /\ lastWrite = <<>>

CreateGoalAny ==
    /\ Len(goals) < MaxGoals
    /\ \E target_amount \in GoalTargets : CreateGoal(target_amount, GoalTargetDate)

ContributeToGoalAny ==
    \E goal_id \in 1..(Len(goals) + 1), amount \in GoalContributions :
        /\ goal_id \in DOMAIN goals =>
              /\ goals[goal_id].current_amount + amount <= MaxBalance
              /\ goals[goal_id].current_amount + amount >= -MaxBalance
        /\ ContributeToGoal(goal_id, amount)

NextGoal == CreateGoalAny \/ ContributeToGoalAny

SpecGoal == InitGoal /\ [][NextGoal]_vars

\* C5: once a goal is COMPLETED, no contribute_to_goal call changes its status.
C5_CompletedIsForGood ==
    [][\A g \in DOMAIN goals :
          goals[g].status = "COMPLETED" => goals'[g].status = "COMPLETED"]_vars

\* a COMPLETED goal was taken below its target again by a contribution
C5_Witness ==
    /\ resp.op = "contribute_to_goal"
    /\ resp.code = 200
    /\ resp.req[2] < 0
    /\ goals[resp.req[1]].status = "COMPLETED"
    /\ goals[resp.req[1]].current_amount < goals[resp.req[1]].target_amount

\* C6: no contribute_to_goal call leaves a goal's current_amount lower than it
\* was before the call.
C6_CurrentAmountNeverDecreases ==
    [][\A g \in DOMAIN goals :
          goals'[g].current_amount >= goals[g].current_amount]_vars

\* C17: in every state reached by create_goal and contribute_to_goal calls, a
\* goal whose current_amount has reached its target_amount is COMPLETED, a goal
\* created with a target_amount <= 0 included.
C17_ReachedTargetIsCompleted ==
    \A g \in DOMAIN goals :
        goals[g].current_amount >= goals[g].target_amount
            => goals[g].status = "COMPLETED"

-----------------------------------------------------------------------------
(* contribute_to_goal requests running concurrently, one session each *)

SessionIdle ==
    [pc |-> "idle", goal_id |-> 0, amount |-> 0, loaded |-> <<>>, goal |-> <<>>,
     code |-> 0]

\* lines 752-760: the session loads the row, or answers 404
ConcRead(s, goal_id, amount) ==
    /\ sess[s].pc = "idle"
    /\ LET i == FindGoal(goal_id)
       IN IF i = 0
          THEN sess' = [sess EXCEPT ![s] = [@ EXCEPT !.pc = "done", !.code = 404,
                                               !.goal_id = goal_id,
                                               !.amount = amount]]
          ELSE sess' = [sess EXCEPT ![s] = [pc |-> "loaded", goal_id |-> goal_id,
                                           amount |-> amount, loaded |-> goals[i],
                                           goal |-> goals[i], code |-> 0]]
    /\ users' = UsersAfterGetDemoUser
    /\ UNCHANGED <<accounts, categories, transactions, budgets, goals, today,
                   resp, rec, lastWrite>>

\* lines 762-766 on the session's own copy of the row (or the TypeError of
\* Decimal + float for a non-zero stored amount, which ends the request)
ConcCompute(s) ==
    /\ sess[s].pc = "loaded"
    /\ IF sess[s].loaded.current_amount # 0
       THEN sess' = [sess EXCEPT ![s].pc = "done", ![s].code = 500]
       ELSE sess' = [sess EXCEPT ![s].pc = "dirty",
                                 ![s].goal = Contributed(@, sess[s].amount)]
    /\ UNCHANGED <<users, accounts, categories, transactions, budgets, goals,
                   today, resp, rec, lastWrite>>

\* the UPDATE of the flush: the attributes that differ from what was loaded
Flushed(row, loaded, goal) ==
    [row EXCEPT
        !.current_amount = IF goal.current_amount # loaded.current_amount
                           THEN goal.current_amount ELSE @,
        !.status = IF goal.status # loaded.status THEN goal.status ELSE @]

\* lines 768-769: db.commit() writes the session's values; refresh rereads
ConcCommit(s) ==
    /\ sess[s].pc = "dirty"
    /\ goals' = [goals EXCEPT
                    ![sess[s].goal_id] = Flushed(@, sess[s].loaded, sess[s].goal)]
    /\ sess' = [sess EXCEPT ![s].pc = "done", ![s].code = 200,
                            ![s].goal = goals'[sess[s].goal_id]]
    /\ UNCHANGED <<users, accounts, categories, transactions, budgets, today,
                   resp, rec, lastWrite>>

\* number of concurrent requests
NumSessions == 2

\* contributions of 0.10 and 0.30, in mills
ConcContributions == {100, 300}

\* targets of the goal the requests contribute to: 0.10 and 1.00, in mills
ConcTargets == {100, 1000}

InitConc ==
    /\ users = 1
    /\ accounts = <<>>
    /\ categories = <<>>
    /\ transactions = <<>>
    /\ budgets = <<>>
    /\ \E target_amount \in ConcTargets :
          goals = <<[id |-> 1, user_id |-> DemoUserId,
                     target_amount |-> target_amount, current_amount |-> 0,
                     target_date |-> GoalTargetDate, status |-> "ACTIVE"]>>
    /\ today = RecToday
    /\ resp = NoResponse
    /\ rec = RecIdle
    /\ sess = [s \in 1..NumSessions |-> SessionIdle]
    /\ lastWrite = <<>>

ConcReadAny ==
    \E s \in 1..NumSessions, goal_id \in {1, 2}, amount \in ConcContributions :
        ConcRead(s, goal_id, amount)

ConcComputeAny == \E s \in 1..NumSessions : ConcCompute(s)

ConcCommitAny == \E s \in 1..NumSessions : ConcCommit(s)

NextConc == ConcReadAny \/ ConcComputeAny \/ ConcCommitAny

SpecConc == InitConc /\ [][NextConc]_vars

\* the requests that were answered 200
Served == {s \in 1..NumSessions : sess[s].pc = "done" /\ sess[s].code = 200}

RECURSIVE SumOver(_, _)
SumOver(S, f) ==
    IF S = {} THEN 0
    ELSE LET x == CHOOSE y \in S : TRUE IN f[x] + SumOver(S \ {x}, f)

\* C7: when every request has ended, the goal's current_amount is what it was
\* before (0) plus the amounts of all the requests that were served: no update
\* is lost.
C7_NoLostUpdate ==
    (\A s \in 1..NumSessions : sess[s].pc = "done") =>
        goals[1].current_amount =
            SumOver(Served, [s \in 1..NumSessions |-> sess[s].amount])

-----------------------------------------------------------------------------
(* upsert_budget *)

\* db.query(Category).filter(display_name == name).first(): the id, 0 for None
RECURSIVE FindCategory(_, _)
FindCategory(category_name, i) ==
    IF i > Len(categories) THEN 0
    ELSE IF categories[i].display_name = category_name THEN i
    ELSE FindCategory(category_name, i + 1)

FindBudgetNever(user_id, category_id, month_start, i) == 0

\* the first budget row of (user, category, month): its index, 0 for None
RECURSIVE FindBudget(_, _, _, _)
FindBudget(user_id, category_id, month_start, i) ==
    IF i > Len(budgets) THEN 0
    ELSE IF /\ budgets[i].user_id = user_id
            /\ budgets[i].category_id = category_id
            /\ budgets[i].month = month_start
         THEN i
    ELSE FindBudget(user_id, category_id, month_start, i + 1)

UpsertResponse(payload, code, body) ==
    [op |-> "upsert_budget", req |-> payload, code |-> code, body |-> body]

CategoriesWithNew(category_name) ==
    Append(categories, [raw_name |-> category_name, display_name |-> category_name])

\* raise HTTPException(status_code=404, ...): the catalogue stays as it is
CategoriesAfterMiss(category_name) == categories

\* payload = <<category_name, year, month, amount_limit>>
UpsertBudget(payload) ==
    LET category_name == payload[1]
        year == payload[2]
        month == payload[3]
        amount_limit == payload[4]
        category == FindCategory(category_name, 1)
        month_start == <<year, month, 1>>
        key == <<DemoUserId, category, month_start>>
        existing == FindBudget(DemoUserId, category, month_start, 1)
    IN /\ rec.pc = "idle"
       /\ users' = UsersAfterGetDemoUser
       /\ IF category = 0
          THEN /\ resp' = UpsertResponse(payload, 404, <<>>)
               /\ categories' = CategoriesAfterMiss(category_name)
               /\ UNCHANGED <<budgets, lastWrite>>
          ELSE IF month \notin 1..12
          THEN \* date(year, month, 1) raises ValueError
               /\ resp' = UpsertResponse(payload, 500, <<>>)
               /\ UNCHANGED <<categories, budgets, lastWrite>>
          ELSE /\ IF existing # 0
                  THEN budgets' = [budgets EXCEPT ![existing].amount_limit =
                                                      amount_limit]
                  ELSE budgets' = Append(budgets,
                                      [user_id |-> DemoUserId,
                                       category_id |-> category,
                                       month |-> month_start,
                                       amount_limit |-> amount_limit])
               /\ resp' = UpsertResponse(payload, 200,
                              [category_name |-> categories[category].display_name,
                               year |-> year, month |-> month,
                               amount_limit |-> amount_limit])
               /\ lastWrite' = [k \in DOMAIN lastWrite \cup {key} |->
                                   IF k = key THEN amount_limit ELSE lastWrite[k]]
               /\ UNCHANGED categories
       /\ UNCHANGED <<accounts, transactions, goals, today, rec, sess>>

-----------------------------------------------------------------------------
(* Budgets under any sequence of upsert_budget calls *)

\* number of categories of the catalogue
BudgetCats == 2

\* number of budget rows the calls may create
MaxBudgets == 2

\* limits 0.10 and 0.25, in mills
BudgetLimits == {100, 250}

\* the requested months; the last one is no month
BudgetPeriods == {RecPeriod, NextPeriod, <<2025, 13>>}

\* the names asked for: those of the catalogue and one it does not hold
BudgetNames == {DisplayNameOf(RawNames[i]) : i \in 1..(BudgetCats + 1)}

InitBudget ==
    /\ users \in {0, 1}
    /\ accounts = <<>>
    /\ categories = Catalogue(BudgetCats)
    /\ transactions = <<>>
    /\ budgets = <<>>
    /\ goals = <<>>
    /\ today = RecToday
    /\ resp = NoResponse
    /\ rec = RecIdle
    /\ sess = <<>>
    /\ lastWrite = <<>>

UpsertBudgetAny ==
    \E category_name \in BudgetNames, p \in BudgetPeriods,
       amount_limit \in BudgetLimits :
        /\ UpsertBudget(<<category_name, p[1], p[2], amount_limit>>)
        /\ Len(budgets') <= MaxBudgets

NextBudget == UpsertBudgetAny

SpecBudget == InitBudget /\ [][NextBudget]_vars

BudgetKey(b) == <<b.user_id, b.category_id, b.month>>

\* C8: after any sequence of upsert_budget calls there is at most one Budget row
\* per (user, category, month), every key that was written has its row, and
\* every row holds the limit of the most recent upsert for its key (so an upsert
\* for one key leaves the rows of the other keys as they were).
C8_LatestUpsertWins ==
    /\ \A i, j \in DOMAIN budgets :
          BudgetKey(budgets[i]) = BudgetKey(budgets[j]) => i = j
    /\ \A i \in DOMAIN budgets :
          /\ BudgetKey(budgets[i]) \in DOMAIN lastWrite
          /\ budgets[i].amount_limit = lastWrite[BudgetKey(budgets[i])]
    /\ \A k \in DOMAIN lastWrite :
          \E i \in DOMAIN budgets : BudgetKey(budgets[i]) = k

\* a key was written twice with different limits, beside a row of another key
C8_Witness ==
    /\ Len(budgets) = 2
    /\ resp.op = "upsert_budget"
    /\ resp.code = 200
    /\ budgets[1].amount_limit = 250
    /\ budgets[2].amount_limit = 100
    /\ resp.req = <<"Coffee", 2025, 3, 250>>
    /\ BudgetKey(budgets[1]) = <<1, 1, <<2025, 3, 1>>>>

\* C9: an upsert_budget call naming a category that no row of categories has
\* ends in 404 and leaves the categories and the budgets as they were.
C9_UnknownCategoryIsNotCreated ==
    [][(/\ resp'.op = "upsert_budget"
        /\ resp' # resp
        /\ \A i \in DOMAIN categories :
              categories[i].display_name # resp'.req[1])
       => (/\ resp'.code = 404
           /\ categories' = categories
           /\ budgets' = budgets)]_vars

\* a 404 for an unknown name after budgets were set
C9_Witness ==
    /\ resp.op = "upsert_budget"
    /\ resp.code = 404
    /\ resp.req[1] = "Entertainment"
    /\ Len(budgets) >= 1
    /\ \A i \in DOMAIN categories : categories[i].display_name # "Entertainment"

-----------------------------------------------------------------------------
(* get_monthly_summary as a handler, over transactions from bounded sets *)

GetMonthlySummary(year, month) ==
    /\ rec.pc = "idle"
    /\ IF month \notin 1..12
       THEN \* datetime(year, month, 1) raises ValueError
            resp' = [op |-> "get_monthly_summary", req |-> <<year, month>>,
                     code |-> 500, body |-> <<>>]
       ELSE resp' = [op |-> "get_monthly_summary", req |-> <<year, month>>,
                     code |-> 200, body |-> MonthlySummary(year, month)]
    /\ UNCHANGED <<users, accounts, categories, transactions, budgets, goals,
                   today, rec, sess, lastWrite>>

\* number of transactions in the table
MaxTxns == 2

\* the months that hold transactions: November 2024 to January 2025
TxnPeriods == {<<2024, 11>>, <<2024, 12>>, <<2025, 1>>}

\* offsets inside a month: its first instant and a later one
TxnOffsets == {0, 1}

\* amounts 0.10 and 0.25, in mills
TxnAmounts == {100, 250}

TxnRows ==
    {[account_id |-> 1, category_id |-> 1,
      txn_datetime |-> <<p[1], p[2], t>>, amount |-> a] :
        p \in TxnPeriods, t \in TxnOffsets, a \in TxnAmounts}

\* the months asked for; the last one is no month
SummaryPeriods == TxnPeriods \cup {<<2024, 10>>, <<2025, 2>>, <<2024, 13>>}

InitMonth ==
    /\ users = 1
    /\ accounts = <<[user_id |-> DemoUserId]>>
    /\ categories = Catalogue(1)
    /\ \E n \in 0..MaxTxns : transactions \in [1..n -> TxnRows]
    /\ budgets = <<>>
    /\ goals = <<>>
    /\ today = RecToday
    /\ resp = NoResponse
    /\ rec = RecIdle
    /\ sess = <<>>
    /\ lastWrite = <<>>

GetMonthlySummaryAny == \E p \in SummaryPeriods : GetMonthlySummary(p[1], p[2])

NextSummary == GetMonthlySummaryAny

SpecMonth == InitMonth /\ [][NextSummary]_vars

\* months counted from year 0, and back
MonthIndex(year, month) == year * 12 + (month - 1)

PeriodAt(idx) == <<idx \div 12, (idx % 12) + 1>>

\* October 2024 to February 2025, as month indices
CheckedMonths == MonthIndex(2024, 10)..MonthIndex(2025, 2)

\* the transactions of the calendar months first..last
InCalendarMonths(first, last) ==
    SelectSeq(transactions,
        LAMBDA t : MonthIndex(t.txn_datetime[1], t.txn_datetime[2]) \in first..last)

RECURSIVE SumOfMonthlyTotals(_, _)
SumOfMonthlyTotals(first, last) ==
    IF first > last THEN 0
    ELSE MonthlyTotal(PeriodAt(first)[1], PeriodAt(first)[2])
         + SumOfMonthlyTotals(first + 1, last)

\* C10: every transaction lies in the window of exactly one month, its calendar
\* month (December's window ending with the year); for every range of
\* consecutive months the monthly totals add up to the total of the
\* transactions of those months; and get_monthly_summary answers that total.
C10_MonthWindowsPartition ==
    /\ \A i \in DOMAIN transactions :
          {idx \in CheckedMonths :
              InWindow(transactions[i].txn_datetime, PeriodAt(idx)[1], PeriodAt(idx)[2])}
          = {MonthIndex(transactions[i].txn_datetime[1],
                        transactions[i].txn_datetime[2])}
    /\ \A first, last \in CheckedMonths :
          first <= last =>
              SumOfMonthlyTotals(first, last) = Amounts(InCalendarMonths(first, last))
    /\ (resp.op = "get_monthly_summary" /\ resp.code = 200) =>
          resp.body.total_spent =
              Amounts(InCalendarMonths(MonthIndex(resp.req[1], resp.req[2]),
                                       MonthIndex(resp.req[1], resp.req[2])))

\* December's summary counts the December transaction and not the one at the
\* first instant of January
C10_Witness ==
    /\ resp.op = "get_monthly_summary"
    /\ resp.req = <<2024, 12>>
    /\ Len(transactions) = 2
    /\ transactions[1].txn_datetime = <<2024, 12, 1>>
    /\ transactions[2].txn_datetime = <<2025, 1, 0>>
    /\ resp.body.total_spent = transactions[1].amount

-----------------------------------------------------------------------------
(* get_trajectory *)

\* extract("year"), extract("month") of txn_datetime
MonthKeyOf(t) == <<t.txn_datetime[1], t.txn_datetime[2]>>

\* the transactions the join with Category keeps
Joined == SelectSeq(transactions, LAMBDA t : t.category_id # 0)

\* per_month_cat.keys()
PerMonthKeys == {MonthKeyOf(Joined[i]) : i \in DOMAIN Joined}

\* sorted(keys): ascending (year, month)
RECURSIVE SortedKeys(_)
SortedKeys(S) ==
    IF S = {} THEN <<>>
    ELSE LET k == CHOOSE x \in S : \A y \in S : TupleLeq(x, y)
         IN <<k>> \o SortedKeys(S \ {k})

\* if months > 0: sorted_keys[-months:] (the whole list when it is shorter)
LastN(s, months) ==
    IF months > 0 THEN SubSeq(s, Max(1, Len(s) - months + 1), Len(s)) ELSE s

\* the joined transactions of one (year, month, display_name) group
GroupRows(key, n) ==
    SelectSeq(transactions,
        LAMBDA t : /\ t.category_id # 0
                   /\ categories[t.category_id].display_name = n
                   /\ MonthKeyOf(t) = key)

\* per_month_cat[key]: the month's categories in row order, with their totals.
\* The query orders by year and month only; order is the order the database
\* gives the groups of one month in.
CatTotals(key, order) ==
    LET names == SelectSeq(order, LAMBDA n : GroupRows(key, n) # <<>>)
    IN [k \in 1..Len(names) |->
           [category_name |-> names[k],
            total_spent |-> Amounts(GroupRows(key, names[k]))]]

\* step 4: one MonthSnapshot per kept month (total_spent to the mill)
MonthSnapshots(sorted_keys, order) ==
    [k \in 1..Len(sorted_keys) |->
        LET cat_totals == CatTotals(sorted_keys[k], order)
        IN [year |-> sorted_keys[k][1], month |-> sorted_keys[k][2],
            total_spent |-> SumSeq([j \in 1..Len(cat_totals) |->
                                       cat_totals[j].total_spent]),
            by_category |-> cat_totals]]

\* cat_history.keys(): the categories in the order they first appear in
\* per_month_cat.items(), which holds every month, kept or not
RECURSIVE CatHistoryNames(_, _, _, _)
CatHistoryNames(all_keys, order, k, acc) ==
    IF k > Len(all_keys) THEN acc
    ELSE LET cat_totals == CatTotals(all_keys[k], order)
             names == [j \in 1..Len(cat_totals) |-> cat_totals[j].category_name]
         IN CatHistoryNames(all_keys, order, k + 1,
                acc \o SelectSeq(names, LAMBDA n : n \notin Range(acc)))

\* cat_history[cat], sorted by (year, month): <<year, month, amt>>
CatHistory(cat, all_keys) ==
    LET ks == SelectSeq(all_keys, LAMBDA key : GroupRows(key, cat) # <<>>)
    IN [i \in 1..Len(ks) |-> <<ks[i][1], ks[i][2], Amounts(GroupRows(ks[i], cat))>>]

\* the (cat, entries[i - 1], entries[i]) of the two nested loops, in loop order
RECURSIVE JumpPairs(_, _, _)
JumpPairs(names, all_keys, c) ==
    IF c > Len(names) THEN <<>>
    ELSE LET entries == CatHistory(names[c], all_keys)
         IN [i \in 1..(Len(entries) - 1) |->
                [cat |-> names[c], prev |-> entries[i], curr |-> entries[i + 1]]]
            \o JumpPairs(names, all_keys, c + 1)

\* biggest_jump = None; a jump is the one-element sequence of its record
NoJump == <<>>

\* percentage_change is <<numerator, denominator>>, or <<>> for None
BiggestJumpRecord(p, diff) ==
    [category_name |-> p.cat,
     from_year |-> p.prev[1], from_month |-> p.prev[2],
     to_year |-> p.curr[1], to_month |-> p.curr[2],
     absolute_change |-> diff,
     percentage_change |-> IF p.prev[3] # 0 THEN <<diff[1] * 100, p.prev[3]>>
                           ELSE <<>>]

\* step 5: the loop over the pairs, from pair k on
RECURSIVE BiggestJump(_, _, _, _, _)
BiggestJump(pairs, k, sorted_keys, biggest_jump, max_abs_change) ==
    IF k > Len(pairs) THEN biggest_jump
    ELSE LET p == pairs[k]
             diff == FloatSub(FloatOf(p.curr[3]), FloatOf(p.prev[3]))
             abs_diff == FloatAbs(diff)
         IN IF \/ <<p.prev[1], p.prev[2]>> \notin Range(sorted_keys)
               \/ <<p.curr[1], p.curr[2]>> \notin Range(sorted_keys)
            THEN BiggestJump(pairs, k + 1, sorted_keys, biggest_jump, max_abs_change)
            ELSE IF FloatGreater(abs_diff, max_abs_change)
            THEN BiggestJump(pairs, k + 1, sorted_keys,
                             <<BiggestJumpRecord(p, diff)>>, abs_diff)
            ELSE BiggestJump(pairs, k + 1, sorted_keys, biggest_jump, max_abs_change)

Trajectory(months, order) ==
    IF Joined = <<>> THEN [months |-> <<>>, biggest_jump |-> NoJump]
    ELSE LET all_keys == SortedKeys(PerMonthKeys)
             sorted_keys == LastN(all_keys, months)
             names == CatHistoryNames(all_keys, order, 1, <<>>)
         IN [months |-> MonthSnapshots(sorted_keys, order),
             biggest_jump |-> BiggestJump(JumpPairs(names, all_keys, 1), 1,
                                          sorted_keys, NoJump, FloatZero)]

\* req = <<months, order>>: the parameter and the row order of the database
GetTrajectory(months, order) ==
    /\ rec.pc = "idle"
    /\ resp' = [op |-> "get_trajectory", req |-> <<months, order>>, code |-> 200,
                body |-> Trajectory(months, order)]
    /\ UNCHANGED <<users, accounts, categories, transactions, budgets, goals,
                   today, rec, sess, lastWrite>>

-----------------------------------------------------------------------------
(* Summaries and trajectories over a transaction history from bounded sets *)

\* number of transactions in the history
MaxHistory == 4

\* the categories that have transactions
HistoryCategoryIds == {1, 2}

\* the months of the history: November 2024 to January 2025
HistoryPeriods == {<<2024, 11>>, <<2024, 12>>, <<2025, 1>>}

\* amounts 0.10, 0.20 and 0.30, in mills
HistoryAmounts == {100, 200, 300}

\* one transaction per cell <<category_id, period>>; category_id 0 is NULL
\* (Transaction.category_id is nullable)
HistoryCells == ({0} \cup HistoryCategoryIds) \X HistoryPeriods

\* the transactions of the cells S, by month and then by category
RECURSIVE HistoryOf(_, _)
HistoryOf(S, amt) ==
    IF S = {} THEN <<>>
    ELSE LET c == CHOOSE x \in S :
                    \A y \in S : TupleLeq(<<x[2][1], x[2][2], x[1]>>,
                                          <<y[2][1], y[2][2], y[1]>>)
         IN <<[account_id |-> 1, category_id |-> c[1],
               txn_datetime |-> <<c[2][1], c[2][2], 3>>, amount |-> amt[c]]>>
            \o HistoryOf(S \ {c}, amt)

\* the orders the database may give the groups of one month in
RowOrders ==
    LET names == Range(DisplayNames(1))
    IN {s \in [1..Cardinality(names) -> names] :
           \A i, j \in DOMAIN s : s[i] = s[j] => i = j}

\* the months parameter: all months, the last one, the last two
HistoryWindows == {0, 1, 2}

InitHistory ==
    /\ users = 1
    /\ accounts = <<[user_id |-> DemoUserId]>>
    /\ categories = Catalogue(Cardinality(HistoryCategoryIds))
    /\ \E used \in SUBSET HistoryCells :
          /\ Cardinality(used) <= MaxHistory
          /\ \E amt \in [used -> HistoryAmounts] :
                /\ \A c \in used : c[1] = 0 => amt[c] = 100
                /\ transactions = HistoryOf(used, amt)
    /\ budgets = <<>>
    /\ goals = <<>>
    /\ today = RecToday
    /\ resp = NoResponse
    /\ rec = RecIdle
    /\ sess = <<>>
    /\ lastWrite = <<>>

GetTrajectoryAny ==
    \E months \in HistoryWindows, order \in RowOrders : GetTrajectory(months, order)

GetMonthlySummaryOfHistory ==
    \E p \in HistoryPeriods : GetMonthlySummary(p[1], p[2])

NextHistory == GetTrajectoryAny \/ GetMonthlySummaryOfHistory

SpecHistory == InitHistory /\ [][NextHistory]_vars

\* C11: the per-category totals of a monthly summary add up to the sum of all
\* the transactions of the month, which is the total_spent of the same response.
C11_CategoryTotalsSumToTotal ==
    (resp.op = "get_monthly_summary" /\ resp.code = 200) =>
        /\ resp.body.total_spent =
              Amounts(SelectSeq(transactions,
                          LAMBDA t : MonthKeyOf(t) = <<resp.req[1], resp.req[2]>>))
        /\ SumSeq([k \in DOMAIN resp.body.by_category |->
                      resp.body.by_category[k].total_spent])
              = resp.body.total_spent

\* the (year, month) pairs in which any transaction exists
MonthsWithTransactions == {MonthKeyOf(transactions[i]) : i \in DOMAIN transactions}

\* C12: get_trajectory answers with one snapshot per distinct (year, month) that
\* has any transaction, ascending, for months <= 0; with the last min(N, number
\* of distinct months) of them for months = N > 0; and with no snapshot and no
\* jump when there is no transaction.
C12_OneSnapshotPerMonthWithTransactions ==
    resp.op = "get_trajectory" =>
        LET all == SortedKeys(MonthsWithTransactions)
            N == resp.req[1]
            kept == IF N > 0 THEN SubSeq(all, Len(all) - Min(N, Len(all)) + 1, Len(all))
                    ELSE all
        IN /\ Len(resp.body.months) = Len(kept)
           /\ \A k \in DOMAIN kept :
                 <<resp.body.months[k].year, resp.body.months[k].month>> = kept[k]
           /\ \A k \in 1..(Len(resp.body.months) - 1) :
                 TupleLess(<<resp.body.months[k].year, resp.body.months[k].month>>,
                           <<resp.body.months[k + 1].year,
                             resp.body.months[k + 1].month>>)
           /\ transactions = <<>> =>
                 (resp.body.months = <<>> /\ resp.body.biggest_jump = NoJump)

\* the months the response kept
KeptOfResponse == {<<resp.body.months[k].year, resp.body.months[k].month>> :
                      k \in DOMAIN resp.body.months}

\* for each category, in the order the categories were first encountered, the
\* adjacent pairs of its history restricted to the kept months
AdjacentKeptPairs ==
    JumpPairs(CatHistoryNames(SortedKeys(PerMonthKeys), resp.req[2], 1, <<>>),
              SortedKeys(KeptOfResponse), 1)

\* later minus earlier, and its absolute value, in mills
Change(p) == p.curr[3] - p.prev[3]

AbsChange(p) == IF Change(p) < 0 THEN -Change(p) ELSE Change(p)

\* the largest absolute change of the adjacent kept pairs (0 when there is none)
LargestAbsChange ==
    LET pairs == AdjacentKeptPairs
        all == {AbsChange(pairs[k]) : k \in DOMAIN pairs} \cup {0}
    IN CHOOSE m \in all : \A x \in all : x <= m

\* C13: the biggest jump is the first, in category-then-time order, of the
\* adjacent kept-month pairs with the largest absolute change; there is no jump
\* when no pair has a non-zero change.
C13_JumpIsFirstLargestChange ==
    resp.op = "get_trajectory" =>
        LET pairs == AdjacentKeptPairs
            jump == resp.body.biggest_jump
        IN IF LargestAbsChange = 0 THEN jump = NoJump
           ELSE LET k == CHOOSE i \in DOMAIN pairs :
                            /\ AbsChange(pairs[i]) = LargestAbsChange
                            /\ \A j \in 1..(i - 1) :
                                  AbsChange(pairs[j]) < LargestAbsChange
                IN /\ jump # NoJump
                   /\ jump[1].category_name = pairs[k].cat
                   /\ <<jump[1].from_year, jump[1].from_month>>
                         = <<pairs[k].prev[1], pairs[k].prev[2]>>
                   /\ <<jump[1].to_year, jump[1].to_month>>
                         = <<pairs[k].curr[1], pairs[k].curr[2]>>

\* C14: the absolute_change of the jump record is the largest absolute change of
\* the adjacent kept-month pairs, the absolute value of later minus earlier for
\* the selected pair, for a decrease as for an increase (the number the response
\* carries is the float of that decimal).
C14_AbsoluteChangeIsAbsoluteValue ==
    (resp.op = "get_trajectory" /\ resp.body.biggest_jump # NoJump) =>
        resp.body.biggest_jump[1].absolute_change = FloatOf(LargestAbsChange)

-----------------------------------------------------------------------------
(* get_goals_progress as a handler, over goals and dates from bounded sets *)

GetGoalsProgress ==
    /\ rec.pc = "idle"
    /\ resp' = [op |-> "get_goals_progress", req |-> <<>>, code |-> 200,
                body |-> GoalsProgress]
    /\ users' = UsersAfterGetDemoUser
    /\ UNCHANGED <<accounts, categories, transactions, budgets, goals, today,
                   rec, sess, lastWrite>>

\* date.today(): the end of a 31-day month, a leap day, the middle of a month
ProgressTodays == {<<2025, 1, 31>>, <<2024, 2, 29>>, <<2025, 3, 15>>}

\* target dates: long past, on, just after and months after the days above
ProgressTargetDates ==
    {<<2020, 1, 1>>, <<2025, 2, 28>>, <<2025, 3, 15>>, <<2025, 3, 16>>,
     <<2025, 4, 14>>, <<2025, 4, 15>>, <<2025, 9, 15>>, <<2026, 3, 14>>,
     <<2026, 4, 20>>}

GoalStatuses == {"ACTIVE", "COMPLETED", "PAUSED"}

\* goals of 1200.00 with 600.00 saved, in mills
ProgressGoal(id, target_date, status) ==
    [id |-> id, user_id |-> DemoUserId, target_amount |-> 1200000,
     current_amount |-> 600000, target_date |-> target_date, status |-> status]

InitProgress ==
    /\ users = 1
    /\ accounts = <<>>
    /\ categories = <<>>
    /\ transactions = <<>>
    /\ budgets = <<>>
    /\ \E n \in 0..MaxGoals :
          \E d \in [1..n -> ProgressTargetDates], s \in [1..n -> GoalStatuses] :
             goals = [k \in 1..n |-> ProgressGoal(k, d[k], s[k])]
    /\ today \in ProgressTodays
    /\ resp = NoResponse
    /\ rec = RecIdle
    /\ sess = <<>>
    /\ lastWrite = <<>>

NextProgress == GetGoalsProgress

SpecProgress == InitProgress /\ [][NextProgress]_vars

\* the number of whole calendar months from d to the later date t: the n with
\* d + n months <= t < d + (n + 1) months
WholeMonths(d, t) ==
    CHOOSE n \in 0..((t[1] - d[1] + 1) * 12) :
        /\ TupleLeq(AddMonths(d, n), t)
        /\ TupleLess(t, AddMonths(d, n + 1))

\* C15: get_goals_progress reports months_left >= 1 for every goal: 1 when
\* target_date <= today, otherwise the number of whole calendar months from
\* today to target_date, raised to 1 when that is 0; goals with the same
\* target_date get the same value whatever their status.
C15_MonthsLeftIsWholeMonthsAtLeastOne ==
    resp.op = "get_goals_progress" =>
        /\ Len(resp.body) = Len(goals)
        /\ \A k \in DOMAIN goals :
              LET months_left == resp.body[k].months_left
                  target_date == goals[k].target_date
              IN /\ months_left >= 1
                 /\ TupleLeq(target_date, today) => months_left = 1
                 /\ TupleLess(today, target_date) =>
                       months_left = Max(WholeMonths(today, target_date), 1)
        /\ \A j, k \in DOMAIN goals :
              goals[j].target_date = goals[k].target_date =>
                  resp.body[j].months_left = resp.body[k].months_left

\* today is exactly 6 calendar months before the target date of an ACTIVE goal
\* (1200.00 with 600.00 saved: 100.00 a month, 50 percent), beside a COMPLETED
\* goal whose target date is years in the past
C15_Witness ==
    /\ resp.op = "get_goals_progress"
    /\ today = <<2025, 3, 15>>
    /\ Len(goals) = 2
    /\ goals[1].target_date = <<2025, 9, 15>>
    /\ goals[1].status = "ACTIVE"
    /\ resp.body[1].months_left = 6
    /\ resp.body[1].monthly_needed = <<600000, 6, 0>>
    /\ resp.body[1].percent_complete = <<60000000, 1200000>>
    /\ goals[2].target_date = <<2020, 1, 1>>
    /\ goals[2].status = "COMPLETED"
    /\ resp.body[2].months_left = 1

\* the target date is later in today's month: 0 whole months, reported as 1
C15_WitnessRaised ==
    /\ resp.op = "get_goals_progress"
    /\ today = <<2025, 3, 15>>
    /\ Len(goals) = 1
    /\ goals[1].target_date = <<2025, 4, 14>>
    /\ resp.body[1].months_left = 1

-----------------------------------------------------------------------------
(* The goal highlight of get_recommendations, over goals from bounded sets *)

\* <<target_amount, current_amount>>: 0.30 with 0.10 saved, 0.20 and 0.10 with
\* nothing saved, in mills
HighlightAmounts == {<<300, 100>>, <<200, 0>>, <<100, 0>>}

\* target dates one and two months after RecToday
HighlightTargetDates == {<<2025, 4, 15>>, <<2025, 5, 15>>}

\* the month's only budget: 0.10, with 0.20 spent
HighlightBudgets ==
    <<[user_id |-> DemoUserId, category_id |-> 1,
       month |-> <<RecPeriod[1], RecPeriod[2], 1>>, amount_limit |-> 100]>>

HighlightTransactions ==
    <<[account_id |-> 1, category_id |-> 1,
       txn_datetime |-> <<RecPeriod[1], RecPeriod[2], 5>>, amount |-> 200]>>

InitHighlight ==
    /\ users = 1
    /\ accounts = <<[user_id |-> DemoUserId]>>
    /\ categories = Catalogue(1)
    /\ budgets \in {<<>>, HighlightBudgets}
    /\ transactions = HighlightTransactions
    /\ \E n \in 0..MaxGoals :
          \E a \in [1..n -> HighlightAmounts], d \in [1..n -> HighlightTargetDates],
             s \in [1..n -> GoalStatuses] :
             goals = [k \in 1..n |->
                         [id |-> k, user_id |-> DemoUserId,
                          target_amount |-> a[k][1], current_amount |-> a[k][2],
                          target_date |-> d[k], status |-> s[k]]]
    /\ today = RecToday
    /\ resp = NoResponse
    /\ rec = RecIdle
    /\ sess = <<>>
    /\ lastWrite = <<>>

SpecHighlight == InitHighlight /\ [][NextRec]_vars

\* the ACTIVE goals, in the order of the table
ActiveGoals == SelectSeq(goals, LAMBDA g : g.status = "ACTIVE")

\* max(target - current, 0) / months_left as the fraction <<num, den>>
DecimalNeeded(g) ==
    <<Max(g.target_amount - g.current_amount, 0), MonthsLeft(g.target_date, today)>>

\* x <= y for two such fractions
FractionLeq(x, y) == x[1] * y[2] <= y[1] * x[2]

\* C16: when the month has a budget status, the goal highlight names the first
\* ACTIVE goal, in encounter order, whose monthly_needed =
\* max(target - current, 0) / months_left is the largest among the ACTIVE
\* goals, and there is no highlight when no goal is ACTIVE.
C16_HighlightIsFirstMostDemandingActiveGoal ==
    IsRecResponse =>
        LET highlight == resp.body.goal_highlight
        IN IF ActiveGoals = <<>> THEN highlight = NoHighlight
           ELSE LET k == CHOOSE i \in DOMAIN ActiveGoals :
                            /\ \A j \in DOMAIN ActiveGoals :
                                  FractionLeq(DecimalNeeded(ActiveGoals[j]),
                                              DecimalNeeded(ActiveGoals[i]))
                            /\ \A j \in 1..(i - 1) :
                                  ~FractionLeq(DecimalNeeded(ActiveGoals[i]),
                                               DecimalNeeded(ActiveGoals[j]))
                IN /\ highlight.kind = "goal"
                   /\ highlight.id = ActiveGoals[k].id

=============================================================================
